---- MODULE Spec2Model ----
(***************************************************************************)
(* A model of the satellite tracker: the element cache of                  *)
(* src/src/satellite.rs, the tracked-object collection of                  *)
(* src/src/widgets/satellites.rs, the map of src/src/widgets/world_map.rs  *)
(* and the event loop of src/src/app.rs and src/src/event.rs.              *)
(***************************************************************************)
EXTENDS Integers, Sequences, FiniteSets, TLC

(***************************************************************************)
(* Bounds of the model.                                                    *)
(***************************************************************************)
\* How many entries of the catalogue (in enum order) the model tracks.
NItems == 2
\* How many times the clock advances.
MaxTicks == 3
\* How many events the channel holds at most.
MaxQueue == 2
\* How many times the clock advances while the event loop is taken in steps.
LoopMaxTicks == 1

(***************************************************************************)
(* Option<T>: None is the empty sequence, Some(v) the sequence of v.       *)
(***************************************************************************)
None == << >>
Some(v) == << v >>
IsSome(o) == o /= << >>
Unwrap(o) == o[1]

(***************************************************************************)
(* enum Satellite, in declaration order (strum's EnumIter).                *)
(***************************************************************************)
SatelliteIter ==
    << "Css", "Iss", "Weather", "Noaa", "Goes", "EarthResources",
       "SearchRescue", "DisasterMonitoring", "Gps", "Glonass", "Galileo",
       "Beidou", "SpaceEarthScience", "Geodetic", "Engineering", "Education",
       "Dfh1", "Military", "RadarCalibration", "CubeSats" >>

Satellite == { SatelliteIter[i] : i \in 1..Len(SatelliteIter) }

\* Display (strum to_string; the variant's name where none is given).
to_string(s) ==
    CASE s = "Css" -> "CSS"
      [] s = "Iss" -> "ISS"
      [] s = "Noaa" -> "NOAA"
      [] s = "Goes" -> "GOES"
      [] s = "EarthResources" -> "Earth resources"
      [] s = "SearchRescue" -> "Search & rescue"
      [] s = "DisasterMonitoring" -> "Disaster monitoring"
      [] s = "Gps" -> "GPS Operational"
      [] s = "Glonass" -> "GLONASS Operational"
      [] s = "SpaceEarthScience" -> "Space & Earth Science"
      [] s = "Dfh1" -> "DFH-1"
      [] s = "RadarCalibration" -> "Radar calibration"
      [] OTHER -> s

\* str::to_lowercase on the display names of the catalogue.
to_lowercase(d) ==
    CASE d = "CSS" -> "css"
      [] d = "ISS" -> "iss"
      [] d = "Weather" -> "weather"
      [] d = "NOAA" -> "noaa"
      [] d = "GOES" -> "goes"
      [] d = "Earth resources" -> "earth resources"
      [] d = "Search & rescue" -> "search & rescue"
      [] d = "Disaster monitoring" -> "disaster monitoring"
      [] d = "GPS Operational" -> "gps operational"
      [] d = "GLONASS Operational" -> "glonass operational"
      [] d = "Galileo" -> "galileo"
      [] d = "Beidou" -> "beidou"
      [] d = "Space & Earth Science" -> "space & earth science"
      [] d = "Geodetic" -> "geodetic"
      [] d = "Engineering" -> "engineering"
      [] d = "Education" -> "education"
      [] d = "DFH-1" -> "dfh-1"
      [] d = "Military" -> "military"
      [] d = "Radar calibration" -> "radar calibration"
      [] d = "CubeSats" -> "cubesats"
      [] OTHER -> d

\* A plausible bug: an entry of the catalogue is left out of both tables.
cospar_id_of_stations(s) ==
    CASE s = "Iss" -> Some("1998-067A")
      [] s = "Css" -> Some("2021-035A")
      [] OTHER -> None

\* The international designator.
cospar_id(s) ==
    CASE s = "Iss" -> Some("1998-067A")
      [] s = "Css" -> Some("2021-035A")
      [] s = "Dfh1" -> Some("1970-034A")
      [] OTHER -> None

\* The CelesTrak group name.
group(s) ==
    CASE s = "Weather" -> Some("weather")
      [] s = "Noaa" -> Some("noaa")
      [] s = "Goes" -> Some("goes")
      [] s = "EarthResources" -> Some("resource")
      [] s = "SearchRescue" -> Some("sarsat")
      [] s = "DisasterMonitoring" -> Some("dmc")
      [] s = "Gps" -> Some("gps-ops")
      [] s = "Glonass" -> Some("glo-ops")
      [] s = "Galileo" -> Some("galileo")
      [] s = "Beidou" -> Some("beidou")
      [] s = "SpaceEarthScience" -> Some("science")
      [] s = "Geodetic" -> Some("geodetic")
      [] s = "Engineering" -> Some("engineering")
      [] s = "Education" -> Some("education")
      [] s = "Military" -> Some("military")
      [] s = "RadarCalibration" -> Some("radar")
      [] s = "CubeSats" -> Some("cubesat")
      [] OTHER -> None

\* A plausible bug: one file for the whole catalogue.
cache_path_shared(s) == << "tracker", "elements", ".json" >>

\* The cache file of a catalogue entry, below the cache directory.
cache_path(s) == << "tracker", to_lowercase(to_string(s)), ".json" >>

\* The catalogue entries the model tracks.
TrackedSatellites == { SatelliteIter[i] : i \in 1..NItems }

(***************************************************************************)
(* sgp4::Elements records and the bodies the upstream catalogue answers    *)
(* with.  A record carries what the program reads of it: the catalog       *)
(* number, the epoch (seconds of the model's clock), the mean motion       *)
(* (rev/day), and two facts about the external propagator: whether it      *)
(* accepts the record at construction, whether its propagation fails from  *)
(* DecayMinutes since epoch on (a decayed orbit), and the ground track the  *)
(* propagator and the frame conversion give it: the (lon, lat) of minute 0, *)
(* 1, .. since epoch, repeating.  Longitudes and latitudes are f64 degrees; *)
(* the model counts them in hundredths of a degree.                         *)
(***************************************************************************)
Deg == 100

\* Where the objects of the catalogue stand (they do not move).
GroundPoint(obj) ==
    CASE obj.norad_id = 1 -> [ lon |-> 0, lat |-> -90 * Deg ]
      [] obj.norad_id = 2 -> [ lon |-> 170 * Deg, lat |-> -80 * Deg ]
      [] OTHER -> [ lon |-> -100 * Deg, lat |-> 45 * Deg ]

ElemOnTrack(id, mm, ok, decays, track) ==
    [ norad_id |-> id, epoch |-> 0, mean_motion |-> mm,
      constructible |-> ok, decays |-> decays, track |-> track ]

Elem(id, mm, ok, decays) ==
    ElemOnTrack(id, mm, ok, decays, << GroundPoint([ norad_id |-> id ]) >>)

ElemA == Elem(1, 16, TRUE, FALSE)
ElemB == Elem(2, 15, TRUE, FALSE)
\* A record sgp4::Constants::from_elements rejects (mean motion 0).
ElemZ == Elem(3, 0, FALSE, FALSE)
\* A record whose propagation fails from DecayMinutes on.
ElemD == Elem(4, 16, TRUE, TRUE)

DecayMinutes == 2 * 60

ResponseBodies == { << ElemA >>, << ElemA, ElemB >>, << ElemA, ElemZ >>, << ElemD, ElemB >> }

\* What one GET of the catalogue endpoint can end as: a transport failure or
\* a non-success status ("err"), a body that is not a JSON array of element
\* records ("malformed"), or such an array ("ok").
NetOutcomes ==
    { [ kind |-> "err", body |-> << >> ], [ kind |-> "malformed", body |-> << >> ] }
    \cup { [ kind |-> "ok", body |-> b ] : b \in ResponseBodies }

(***************************************************************************)
(* serde_json: the text of a JSON array of records, and its parse back     *)
(* into Option<Vec<Elements>> (the text null parses to None).              *)
(***************************************************************************)
json_to_string(elements) == [ json |-> "array", records |-> elements ]
json_from_str(text) ==
    IF text.json = "null" THEN None ELSE Some(text.records)

(***************************************************************************)
(* std::fs on the cache directory: a file is None (absent) or              *)
(* Some([content, modified]).                                              *)
(***************************************************************************)
CachePaths == { cache_path(s) : s \in TrackedSatellites }

fs_exists(fs, path) == IsSome(fs[path])
fs_modified(fs, path) == Unwrap(fs[path]).modified
fs_read_to_string(fs, path) == Unwrap(fs[path]).content

\* A plausible bug: the write keeps the content of a file that exists.
fs_write_keeps_old(fs, path, text, t) ==
    IF IsSome(fs[path])
    THEN [ fs EXCEPT ![path] = Some([ content |-> Unwrap(fs[path]).content, modified |-> t ]) ]
    ELSE [ fs EXCEPT ![path] = Some([ content |-> text, modified |-> t ]) ]

fs_write(fs, path, text, t) ==
    [ fs EXCEPT ![path] = Some([ content |-> text, modified |-> t ]) ]

(***************************************************************************)
(* Satellite::fetch_elements: [panic, val], val the Option it returns.     *)
(***************************************************************************)
\* A panic is named by its message; NoPanic when there is none.
NoPanic == "none"

\* A `let` binding: v is evaluated once and F gets its value.
Bind(v, F(_)) == CHOOSE r \in { F(x) : x \in { v } } : TRUE
Fetched(p, v) == [ panic |-> p, val |-> v ]

\* A plausible bug: a failed call is unwrapped instead of mapped to None.
fetch_elements_unwrap(s, net) ==
    IF net.kind = "ok" THEN Fetched(NoPanic, Some(net.body))
    ELSE Fetched("called Result::unwrap() on an Err value", None)

\* A plausible bug: a failed call yields an empty default array.
fetch_elements_default(s, net) ==
    CASE net.kind = "err" -> Fetched(NoPanic, Some(<< >>))
      [] net.kind = "malformed" -> Fetched("failed to parse JSON from celestrak.org", None)
      [] OTHER -> Fetched(NoPanic, Some(net.body))

fetch_elements(s, net) ==
    LET id == cospar_id(s)
        grp == group(s)
    IN  IF IsSome(id) = IsSome(grp)
        THEN Fetched("entered unreachable code", None)
        ELSE CASE net.kind = "err" -> Fetched(NoPanic, None)
               [] net.kind = "malformed" ->
                    Fetched("failed to parse JSON from celestrak.org", None)
               [] OTHER -> Fetched(NoPanic, Some(net.body))

(***************************************************************************)
(* Satellite::get_elements.                                                *)
(***************************************************************************)
CacheMaxAgeSecs == 2 * 60 * 60

\* A plausible bug: the threshold itself counts as expired.
is_cache_expired_inclusive(age) == age >= CacheMaxAgeSecs

\* A plausible bug: every existing entry counts as expired.
is_cache_expired_always(age) == age >= 0

is_cache_expired(age) == age > CacheMaxAgeSecs

\* A plausible bug: a failed refetch discards the stale entry.
store_refetched_or_discard(fs, path, fetched, t) ==
    IF IsSome(fetched.val)
    THEN fs_write(fs, path, json_to_string(Unwrap(fetched.val)), t)
    ELSE [ fs EXCEPT ![path] = None ]

\* `if let Some(elements) = self.fetch_elements() { fs::write(..) }`
store_refetched(fs, path, fetched, t) ==
    IF IsSome(fetched.val)
    THEN fs_write(fs, path, json_to_string(Unwrap(fetched.val)), t)
    ELSE fs

\* The outcome of one call: whether it panicked, the Option it returned, the
\* files it left, and how many fetches it attempted.
GotElements(p, r, fs, n) == [ panic |-> p, ret |-> r, files |-> fs, fetches |-> n ]

\* The call at time t, `net` being how a fetch of this call ends.  The write
\* of a fetched entry stamps it with t, so that its age is 0 and the second
\* fetch of the same call happens only for an entry that existed before.
get_elements(fs, s, t, net) ==
    LET path == cache_path(s)
        missing == ~fs_exists(fs, path)
        first == IF missing THEN fetch_elements(s, net) ELSE Fetched(NoPanic, None)
    IN  IF missing /\ first.panic /= NoPanic THEN GotElements(first.panic, None, fs, 1)
        ELSE IF missing /\ ~IsSome(first.val) THEN GotElements(NoPanic, None, fs, 1)
        ELSE
          LET fs1 == IF missing
                     THEN fs_write(fs, path, json_to_string(Unwrap(first.val)), t)
                     ELSE fs
              n1 == IF missing THEN 1 ELSE 0
              age == t - fs_modified(fs1, path)
              expired == is_cache_expired(age)
              second == IF expired THEN fetch_elements(s, net) ELSE Fetched(NoPanic, None)
              n2 == IF expired THEN n1 + 1 ELSE n1
          IN  IF expired /\ second.panic /= NoPanic
              THEN GotElements(second.panic, None, fs1, n2)
              ELSE
                LET fs2 == IF expired THEN store_refetched(fs1, path, second, t) ELSE fs1
                IN  IF ~fs_exists(fs2, path)
                    THEN GotElements("read_to_string: No such file or directory",
                                     None, fs2, n2)
                    ELSE GotElements(NoPanic, json_from_str(fs_read_to_string(fs2, path)),
                                     fs2, n2)

(***************************************************************************)
(* The state.                                                              *)
(***************************************************************************)
VARIABLES
    files,                 \* the cache directory: path -> Option<[content, modified]>
    now,                   \* the clock, in seconds
    panicked,              \* the panic that terminated the process, or NoPanic
    call,                  \* the last get_elements call made on its own
    items,                 \* SatellitesState::items
    objects,               \* SatellitesState::objects
    last_object_update,    \* SatellitesState::last_object_update
    list_state,            \* SatellitesState::list_state: [selected, offset]
    satellites_inner_area, \* SatellitesState::inner_area
    world_map_inner_area,  \* WorldMapState::inner_area
    selected_object,       \* WorldMapState::selected_object
    hovered_object,        \* WorldMapState::hovered_object
    running,               \* App::running
    frame,                 \* the last render: whether update_objects was
                           \* rebuilding the objects it drew
    queue,                 \* the events sent and not yet received
    pc,                    \* where the main loop is
    cur,                   \* the handler the main loop is in the middle of
    procs,                 \* the trackers that share one cache directory:
                           \* where each is in its get_elements call
    trajectory,            \* the trajectory of the selected object, as
                           \* render_top_layer samples and draws it
    nearest,               \* the last get_nearest_object lookup made on
                           \* its own: the cell asked for and what came back
    fetch,                 \* the last fetch_elements call made on its own:
                           \* the catalogue entry and what came back
    julian,                \* the last julian_days_from_utc call made on its
                           \* own: the date and time and what came back
    sidereal               \* the last gmst_from_julian_days call made on its
                           \* own: the Julian days and what came back

cache_vars == << files, now, panicked, call >>
app_vars ==
    << items, objects, last_object_update, list_state, satellites_inner_area,
       world_map_inner_area, selected_object, hovered_object, running, frame >>
loop_vars == << queue, pc, cur >>
\* The state of the specifications that take one function on its own.
side_vars == << procs, trajectory, nearest, fetch, julian, sidereal >>
vars == << cache_vars, app_vars, loop_vars, side_vars >>

TickSecs == 60 * 60
MaxTime == MaxTicks * TickSecs

\* The clock advances.
Tick ==
    /\ panicked = NoPanic
    /\ now < MaxTime
    /\ now' = now + TickSecs
    /\ UNCHANGED << files, panicked, call, side_vars, app_vars, loop_vars >>

NoCall ==
    [ made |-> FALSE, sat |-> "", at |-> 0, pre |-> None,
      net |-> [ kind |-> "err", body |-> << >> ], panic |-> NoPanic, ret |-> None,
      fetches |-> 0 ]

\* One call of get_elements for catalogue entry s, its fetch (if it makes
\* one) ending as net.  `call` keeps what the call saw and what it did.
CallGetElements(s, net) ==
    /\ panicked = NoPanic
    /\ LET got == get_elements(files, s, now, net)
       IN  /\ files' = got.files
           /\ panicked' = got.panic
           /\ call' = [ made |-> TRUE, sat |-> s, at |-> now,
                        pre |-> files[cache_path(s)], net |-> net,
                        panic |-> got.panic, ret |-> got.ret,
                        fetches |-> got.fetches ]
    /\ UNCHANGED << now, app_vars, loop_vars, side_vars >>

(***************************************************************************)
(* Object: construction and propagation.                                   *)
(***************************************************************************)
ElementsErrorPanic == "Constants::from_elements(..).unwrap(): ElementsError"
PropagationErrorPanic == "predict(..).unwrap(): PropagationError"
IndexPanic == "index out of bounds"

\* Object::from_elements: [panic, obj].  The object keeps the record's
\* fields; sgp4::Constants::from_elements(..).unwrap() panics on a record
\* the propagator rejects.
from_elements(e) ==
    IF e.constructible
    THEN [ panic |-> NoPanic, obj |-> e ]
    ELSE [ panic |-> ElementsErrorPanic, obj |-> e ]

\* Object::orbital_period, in seconds (`as i64` truncates).
SecondsPerDay == 24 * 60 * 60
orbital_period(obj) == SecondsPerDay \div obj.mean_motion

\* A plausible bug: the range takes the last minute of the period in.
num_minutes_inclusive(seconds) == seconds \div 60 + 1

\* chrono::Duration::num_minutes.
num_minutes(seconds) == seconds \div 60

\* Where the propagator and the frame conversion put an object, so many
\* minutes after its epoch.
PositionAt(obj, minutes) == obj.track[(minutes % Len(obj.track)) + 1]

\* Object::predict at time t: [ok, lon, lat]; not ok is Err(sgp4::Error).
predict(obj, t) ==
    LET minutes_since_epoch == (t - obj.epoch) \div 60
        p == PositionAt(obj, minutes_since_epoch)
    IN  IF obj.decays /\ minutes_since_epoch >= DecayMinutes
        THEN [ ok |-> FALSE, lon |-> 0, lat |-> 0 ]
        ELSE [ ok |-> TRUE, lon |-> p.lon, lat |-> p.lat ]

(***************************************************************************)
(* object.rs: the time conversions.  The f64 that holds Julian days is     *)
(* kept as a whole number of days and the seconds into the next one, so    *)
(* that a date and time to the second has its Julian days exactly.         *)
(***************************************************************************)
\* A chrono DateTime<Utc>, to the second.
DateTime(year, month, day, hour, minute, second) ==
    [ year |-> year, month |-> month, day |-> day,
      hour |-> hour, minute |-> minute, second |-> second ]

\* The f64 whole + secs / 86400.
Days(whole, secs) ==
    [ class |-> "days",
      whole |-> whole + secs \div SecondsPerDay,
      secs |-> secs % SecondsPerDay ]

\* A plausible bug: January and February are not counted as months 13 and
\* 14 of the year before.
julian_days_from_utc_unadjusted(datetime) ==
    LET hour == datetime.hour * 3600 + datetime.minute * 60 + datetime.second
        y == datetime.year
        m == datetime.month
        a == y \div 100
        b == 2 - a + a \div 4
    IN  Days((1461 * (y + 4716)) \div 4 + (306001 * (m + 1)) \div 10000
                + datetime.day - 1525 + b,
             SecondsPerDay \div 2 + hour)

\* julian_days_from_utc.  `hour` is counted in seconds, so hour / 24.0 is
\* hour seconds of a day; 365.25 is 1461 / 4, 30.6001 is 306001 / 10000,
\* floor() is \div, and - 1524.5 is 1525 days back and half a day on.
julian_days_from_utc(datetime) ==
    LET hour == datetime.hour * 3600 + datetime.minute * 60 + datetime.second
        y == IF datetime.month <= 2 THEN datetime.year - 1 ELSE datetime.year
        m == IF datetime.month <= 2 THEN datetime.month + 12 ELSE datetime.month
        a == y \div 100
        b == 2 - a + a \div 4
    IN  Days((1461 * (y + 4716)) \div 4 + (306001 * (m + 1)) \div 10000
                + datetime.day - 1525 + b,
             SecondsPerDay \div 2 + hour)

\* chrono's calendar: the proleptic Gregorian one.
IsLeapYear(year) == year % 4 = 0 /\ (year % 100 /= 0 \/ year % 400 = 0)

DaysInMonth(year, month) ==
    IF month = 2 THEN (IF IsLeapYear(year) THEN 29 ELSE 28)
    ELSE IF month \in { 4, 6, 9, 11 } THEN 30 ELSE 31

\* The same time of day on the next day of the calendar.
NextDay(datetime) ==
    IF datetime.day < DaysInMonth(datetime.year, datetime.month)
    THEN [ datetime EXCEPT !.day = @ + 1 ]
    ELSE IF datetime.month < 12
    THEN [ datetime EXCEPT !.month = @ + 1, !.day = 1 ]
    ELSE [ datetime EXCEPT !.year = @ + 1, !.month = 1, !.day = 1 ]

(***************************************************************************)
(* gmst_from_julian_days.  Julian days within a century or so of J2000    *)
(* are Days, and the degrees and radians computed from them are kept in    *)
(* hundredths of a degree and in microradians.  An f64 far beyond that is  *)
(* kept by its sign and its order of magnitude alone, 10^(exp / 100), up   *)
(* to the largest finite f64; past it the arithmetic gives an infinity,    *)
(* and from infinities a NaN.                                              *)
(***************************************************************************)
J2000_EPOCH == 2451545
JULIAN_CENTURY == 36525
\* In hundredths of a degree: 280.46, and 360.99 a day.
GMST_MEAN == 28046
GMST_ADVANCE == 36099
\* In hundred-thousandths of a degree a century squared: 0.00039.
T2_COEFF == 39
\* The divisor of T3_COEFF = -1.0 / 38710000.0.
T3_DIVISOR == 38710000
\* 2.0 * PI, in microradians.
TwoPi == 6283185

\* The orders of magnitude, 100 log10, of JULIAN_CENTURY, GMST_ADVANCE,
\* T2_COEFF, T3_COEFF and f64::MAX.
JULIAN_CENTURY_EXP == 456
GMST_ADVANCE_EXP == 256
T2_COEFF_EXP == -341
T3_COEFF_EXP == -759
F64_MAX_EXP == 30825

NaN == [ class |-> "nan" ]
Infinity(neg) == [ class |-> "inf", neg |-> neg ]
\* The f64 of sign neg and magnitude 10^(exp / 100).
Huge(neg, exp) ==
    IF exp > F64_MAX_EXP THEN Infinity(neg)
    ELSE [ class |-> "huge", neg |-> neg, exp |-> exp ]

\* a * c, for the constant c of sign neg and magnitude 10^(exp / 100).
HugeTimes(a, neg, exp) ==
    IF a.class = "nan" THEN NaN
    ELSE IF a.class = "inf" THEN Infinity(a.neg /= neg)
    ELSE Huge(a.neg /= neg, a.exp + exp)

\* a.powi(n).
HugePowi(a, n) ==
    IF a.class = "nan" THEN NaN
    ELSE IF a.class = "inf" THEN Infinity(a.neg /\ n % 2 = 1)
    ELSE Huge(a.neg /\ n % 2 = 1, n * a.exp)

\* a + b, for a and b of different orders of magnitude: the larger takes
\* the smaller in; infinities of opposite signs leave a NaN.
HugePlus(a, b) ==
    IF a.class = "nan" \/ b.class = "nan" THEN NaN
    ELSE IF a.class = "inf" /\ b.class = "inf"
    THEN (IF a.neg = b.neg THEN a ELSE NaN)
    ELSE IF a.class = "inf" THEN a
    ELSE IF b.class = "inf" THEN b
    ELSE IF a.exp >= b.exp THEN a ELSE b

\* a / b rounded towards zero, for b > 0.
Quot(a, b) == IF a >= 0 THEN a \div b ELSE -((-a) \div b)

\* a % b of f64: the remainder has the sign of a.
Rem(a, b) == IF a >= 0 THEN a % b ELSE -((-a) % b)

\* f64::to_radians, from hundredths of a degree to microradians.
to_radians(x) == Quot(x * 17453, 100)

\* f64::rem_euclid.
rem_euclid(x, rhs) ==
    LET r == Rem(x, rhs)
    IN  IF r < 0 THEN r + rhs ELSE r

\* `gmst`, the sidereal time in degrees before it is normalized.  Of Days
\* it is a number of hundredths of a degree (t in thousandths of a century,
\* the time of day to the minute); of a Huge, a Huge, an infinity or a NaN
\* (J2000_EPOCH and GMST_MEAN are lost in such a number's rounding).
gmst_degrees(julian_days) ==
    IF julian_days.class = "days"
    THEN LET days == julian_days.whole - J2000_EPOCH
             t == Quot(days * 1000, JULIAN_CENTURY)
         IN  [ class |-> "degrees",
               val |-> GMST_MEAN
                         + (GMST_ADVANCE * days
                              + Quot(GMST_ADVANCE * (julian_days.secs \div 60), 24 * 60))
                         + Quot(T2_COEFF * t * t, 1000000000)
                         - Quot(Quot(t * t * t, 1000000000) * 100, T3_DIVISOR) ]
    ELSE LET t == HugeTimes(julian_days, FALSE, -JULIAN_CENTURY_EXP)
         IN  HugePlus(HugePlus(HugeTimes(julian_days, FALSE, GMST_ADVANCE_EXP),
                               HugeTimes(HugePowi(t, 2), FALSE, T2_COEFF_EXP)),
                      HugeTimes(HugePowi(t, 3), TRUE, T3_COEFF_EXP))

\* gmst_from_julian_days: (gmst % 360.0).to_radians().rem_euclid(2.0 * PI).
\* The remainder of an infinity or a NaN is a NaN, and so is all that is
\* computed from it.  A Huge is a whole number whose digits the model does
\* not keep: rem is what % 360.0 leaves of its magnitude.
gmst_from_julian_days(julian_days, rem) ==
    LET gmst == gmst_degrees(julian_days)
    IN  IF gmst.class \in { "nan", "inf" } THEN NaN
        ELSE [ class |-> "radians",
               val |-> rem_euclid(
                           to_radians(IF gmst.class = "huge"
                                      THEN (IF gmst.neg THEN -rem ELSE rem)
                                      ELSE Rem(gmst.val, 36000)),
                           TwoPi) ]

(***************************************************************************)
(* SatellitesState::update_objects.  The state it works on is              *)
(* [panic, items, objects, files]; nets[i] is how a fetch for item i ends. *)
(***************************************************************************)
RECURSIVE extend_from(_, _, _)
\* self.objects.extend(elements.into_iter().map(Object::from_elements)),
\* from record k of the array on.
extend_from(st, elements, k) ==
    IF k > Len(elements) THEN st
    ELSE LET made == from_elements(elements[k])
         IN  IF made.panic /= NoPanic
             THEN [ st EXCEPT !.panic = made.panic ]
             ELSE extend_from([ st EXCEPT !.objects = Append(@, made.obj) ],
                              elements, k + 1)

\* A plausible bug: one group without elements ends the whole refresh with
\* nothing selected and nothing tracked.
update_item_or_reset(st, i, t, net) ==
    IF st.panic /= NoPanic \/ ~st.items[i].selected THEN st
    ELSE Bind(get_elements(st.files, st.items[i].satellite, t, net), LAMBDA got :
           LET st1 == [ st EXCEPT !.files = got.files, !.panic = got.panic ]
           IN  IF got.panic /= NoPanic THEN st1
               ELSE IF IsSome(got.ret) THEN extend_from(st1, Unwrap(got.ret), 1)
               ELSE [ st1 EXCEPT !.objects = << >>,
                                 !.items = [ j \in 1..Len(@) |->
                                               [ @[j] EXCEPT !.selected = FALSE ] ] ])

\* One turn of the loop over the items.
update_item(st, i, t, net) ==
    IF st.panic /= NoPanic \/ ~st.items[i].selected THEN st
    ELSE Bind(get_elements(st.files, st.items[i].satellite, t, net), LAMBDA got :
           LET st1 == [ st EXCEPT !.files = got.files, !.panic = got.panic ]
           IN  IF got.panic /= NoPanic THEN st1
               ELSE IF IsSome(got.ret) THEN extend_from(st1, Unwrap(got.ret), 1)
               ELSE [ st1 EXCEPT !.items[i].selected = FALSE ])

RECURSIVE update_items_from(_, _, _, _)
update_items_from(st, i, t, nets) ==
    IF i > Len(st.items) THEN st
    ELSE Bind(update_item(st, i, t, nets[i]),
              LAMBDA st1 : update_items_from(st1, i + 1, t, nets))

\* A plausible bug: the collection is extended without being cleared.
clear_objects_skipped(st) == st

\* self.objects.clear()
clear_objects(st) == [ st EXCEPT !.objects = << >> ]

update_objects(st, t, nets) ==
    Bind(clear_objects(st), LAMBDA st0 : update_items_from(st0, 1, t, nets))

(***************************************************************************)
(* Geometry.  A Rect is [x, y, width, height]; the layout of a frame is    *)
(* fixed by the terminal's size, which the model holds constant.           *)
(***************************************************************************)
DefaultRect == [ x |-> 0, y |-> 0, width |-> 0, height |-> 0 ]
MapInnerArea == [ x |-> 1, y |-> 1, width |-> 2, height |-> 1 ]
SatellitesInnerArea == [ x |-> 4, y |-> 1, width |-> 1, height |-> 1 ]

\* Rect::contains(Position::new(column, row)).
rect_contains(r, column, row) ==
    /\ column >= r.x /\ column < r.x + r.width
    /\ row >= r.y /\ row < r.y + r.height

\* usize::saturating_sub.
saturating_sub(a, b) == IF a >= b THEN a - b ELSE 0

Min(a, b) == IF a <= b THEN a ELSE b

\* f64 `as i32`: drops the fraction and saturates at the ends of i32.
I32Max == 2147483647
as_i32(v) ==
    IF v > I32Max THEN I32Max
    ELSE IF v < -I32Max - 1 THEN -I32Max - 1 ELSE v

(***************************************************************************)
(* The world map: nearest object and mouse events.  The application state  *)
(* `a` is the record AppState below.  Indices are 0-based as in the code.  *)
(***************************************************************************)
\* area_to_lon_lat (the areas of the model divide 360 and 180 evenly).
area_to_lon_lat(x, y, area) ==
    [ lon |-> -180 * Deg + ((x + 1) * 360 * Deg) \div area.width,
      lat |-> 90 * Deg - ((y + 1) * 180 * Deg) \div area.height ]

\* The key of min_by_key for one object: the squared distance in square
\* degrees, times 1000, cut to an i32.  dx and dy are in hundredths of a
\* degree, which makes the factor 1000 / Deg^2 a division by 10.
nearest_key(obj, x, y, area, t) ==
    LET state == predict(obj, t)
        q == area_to_lon_lat(x, y, area)
        dx == state.lon - q.lon
        dy == state.lat - q.lat
    IN  as_i32((dx * dx + dy * dy) \div ((Deg * Deg) \div 1000))

RECURSIVE min_by_key_from(_, _, _)
\* Iterator::min_by_key: the fold keeps the earlier of two equal keys.
min_by_key_from(keys, best, k) ==
    IF k > Len(keys) THEN best
    ELSE min_by_key_from(keys, IF keys[k] < keys[best] THEN k ELSE best, k + 1)

\* A plausible bug: the position in the collection, counted from one.
get_nearest_object_one_based(a, x, y, t) ==
    IF a.objects = << >> THEN [ panic |-> NoPanic, index |-> None ]
    ELSE IF \E k \in 1..Len(a.objects) : ~predict(a.objects[k], t).ok
    THEN [ panic |-> PropagationErrorPanic, index |-> None ]
    ELSE LET keys == [ k \in 1..Len(a.objects) |->
                         nearest_key(a.objects[k], x, y, a.world_map_inner_area, t) ]
         IN  [ panic |-> NoPanic, index |-> Some(min_by_key_from(keys, 1, 2)) ]

\* get_nearest_object: [panic, index].  The key of every object is
\* computed, and predict(..).unwrap() panics on a failed propagation.
get_nearest_object(a, x, y, t) ==
    IF a.objects = << >> THEN [ panic |-> NoPanic, index |-> None ]
    ELSE IF \E k \in 1..Len(a.objects) : ~predict(a.objects[k], t).ok
    THEN [ panic |-> PropagationErrorPanic, index |-> None ]
    ELSE LET keys == [ k \in 1..Len(a.objects) |->
                         nearest_key(a.objects[k], x, y, a.world_map_inner_area, t) ]
         IN  [ panic |-> NoPanic, index |-> Some(min_by_key_from(keys, 1, 2) - 1) ]

\* A plausible bug: the object under the pointer is selected as well as
\* hovered.
world_map_handle_mouse_events_coupled(event, a, t) ==
    LET inner_area == a.world_map_inner_area
    IN  IF ~rect_contains(inner_area, event.column, event.row)
        THEN [ a EXCEPT !.hovered_object = None ]
        ELSE
          Bind(get_nearest_object(a, event.column - inner_area.x,
                                  event.row - inner_area.y, t), LAMBDA near :
            IF near.panic /= NoPanic THEN [ a EXCEPT !.panic = near.panic ]
            ELSE [ a EXCEPT !.selected_object =
                                IF event.kind = "DownRight" THEN None ELSE near.index,
                            !.hovered_object = near.index ])

\* A plausible bug: the arms of the two buttons are exchanged.
world_map_handle_mouse_events_swapped(event, a, t) ==
    LET inner_area == a.world_map_inner_area
    IN  IF ~rect_contains(inner_area, event.column, event.row)
        THEN [ a EXCEPT !.hovered_object = None ]
        ELSE
          Bind(get_nearest_object(a, event.column - inner_area.x,
                                  event.row - inner_area.y, t), LAMBDA near :
            LET a1 == CASE event.kind = "DownRight" ->
                            IF near.panic /= NoPanic THEN [ a EXCEPT !.panic = near.panic ]
                            ELSE [ a EXCEPT !.selected_object = near.index ]
                        [] event.kind = "DownLeft" ->
                            [ a EXCEPT !.selected_object = None ]
                        [] OTHER -> a
            IN  IF a1.panic /= NoPanic THEN a1
                ELSE IF near.panic /= NoPanic THEN [ a1 EXCEPT !.panic = near.panic ]
                ELSE [ a1 EXCEPT !.hovered_object = near.index ])

\* world_map::handle_mouse_events.
world_map_handle_mouse_events(event, a, t) ==
    LET inner_area == a.world_map_inner_area
    IN  IF ~rect_contains(inner_area, event.column, event.row)
        THEN [ a EXCEPT !.hovered_object = None ]
        ELSE
          Bind(get_nearest_object(a, event.column - inner_area.x,
                                  event.row - inner_area.y, t), LAMBDA near :
            LET a1 == CASE event.kind = "DownLeft" ->
                            IF near.panic /= NoPanic THEN [ a EXCEPT !.panic = near.panic ]
                            ELSE [ a EXCEPT !.selected_object = near.index ]
                        [] event.kind = "DownRight" ->
                            [ a EXCEPT !.selected_object = None ]
                        [] OTHER -> a
            IN  IF a1.panic /= NoPanic THEN a1
                ELSE IF near.panic /= NoPanic THEN [ a1 EXCEPT !.panic = near.panic ]
                ELSE [ a1 EXCEPT !.hovered_object = near.index ])

(***************************************************************************)
(* The satellite list: mouse events.                                       *)
(***************************************************************************)
\* ListState::select: selecting nothing also resets the offset.
list_select(ls, index) ==
    [ selected |-> index, offset |-> IF index = None THEN 0 ELSE ls.offset ]

\* The end of the handler: highlight the hovered item.
highlight_hovered_item(event, a) ==
    LET row == (event.row - a.satellites_inner_area.y) + a.list_state.offset
        index == IF row < Len(a.items) THEN Some(row) ELSE None
    IN  [ a EXCEPT !.list_state = list_select(@, index) ]

\* A plausible bug: the click toggles the item and leaves the map's
\* selection to the rebuild.
toggle_clicked_item_only(a) ==
    LET index == Unwrap(a.list_state.selected)
    IN  [ a EXCEPT !.items[index + 1].selected = ~@ ]

\* The left click's own changes, before update_objects runs.
toggle_clicked_item(a) ==
    LET index == Unwrap(a.list_state.selected)
    IN  [ a EXCEPT !.items[index + 1].selected = ~@,
                   !.selected_object = None,
                   !.hovered_object = None ]

\* Whether the event makes the list handler call update_objects.
list_click_updates(event, a) ==
    /\ rect_contains(a.satellites_inner_area, event.column, event.row)
    /\ event.kind = "DownLeft"
    /\ IsSome(a.list_state.selected)

\* satellites::handle_mouse_events.
satellites_handle_mouse_events(event, a, t, nets) ==
    LET inner_area == a.satellites_inner_area
    IN  IF ~rect_contains(inner_area, event.column, event.row)
        THEN [ a EXCEPT !.list_state = list_select(@, None) ]
        ELSE
          Bind(CASE event.kind = "DownLeft" ->
                      IF IsSome(a.list_state.selected)
                      THEN Bind(toggle_clicked_item(a),
                                LAMBDA a0 : update_objects(a0, t, nets))
                      ELSE a
                 [] event.kind = "ScrollDown" ->
                      LET max_offset == saturating_sub(Len(a.items), inner_area.height)
                      IN  [ a EXCEPT !.list_state.offset = Min(@ + 1, max_offset) ]
                 [] event.kind = "ScrollUp" ->
                      [ a EXCEPT !.list_state.offset = saturating_sub(@, 1) ]
                 [] OTHER -> a,
               LAMBDA a1 :
                 IF a1.panic /= NoPanic THEN a1 ELSE highlight_hovered_item(event, a1))

\* app.rs handle_mouse_events: the map's handler, then the list's (the
\* handler of the object information table touches only that table's state
\* and the clipboard, which the model leaves out).
handle_mouse_events(event, a, t, nets) ==
    Bind(world_map_handle_mouse_events(event, a, t), LAMBDA a1 :
      IF a1.panic /= NoPanic THEN a1
      ELSE satellites_handle_mouse_events(event, a1, t, nets))

(***************************************************************************)
(* Rendering.                                                              *)
(***************************************************************************)
\* Whether predict(..).unwrap() panics somewhere on the trajectory of the
\* selected object: minutes 1 .. period - 1 from t.
trajectory_panics(obj, t) ==
    \E minutes \in 1..(num_minutes(orbital_period(obj)) - 1) :
        ~predict(obj, t + minutes * 60).ok

\* f64::abs
Abs(v) == IF v < 0 THEN -v ELSE v


\* The end of the range `1..selected.orbital_period().num_minutes()`.
sample_end(obj) == num_minutes(orbital_period(obj))

\* canvas::Line::new(x1, y1, x2, y2, color)
Line(x1, y1, x2, y2) == [ x1 |-> x1, y1 |-> y1, x2 |-> x2, y2 |-> y2 ]

\* One turn of `for window in points.windows(2)`: the lines it draws.
draw_window(p1, p2) ==
    LET x1 == p1[1]
        y1 == p1[2]
        x2 == p2[1]
        y2 == p2[2]
    IN  IF Abs(x1 - x2) >= 180 * Deg
        THEN LET x_edge == IF x1 > 0 THEN 180 * Deg ELSE -180 * Deg
             IN  << Line(x1, y1, x_edge, y2), Line(-x_edge, y1, x2, y2) >>
        ELSE IF Abs(y1 - y2) >= 90 * Deg THEN << >>
        ELSE << Line(x1, y1, x2, y2) >>

\* The panic of WorldMap::render and ObjectInformation::render, or NoPanic.
render_panic(a, t) ==
    IF \E k \in 1..Len(a.objects) : ~predict(a.objects[k], t).ok
    THEN PropagationErrorPanic                     \* render_bottom_layer
    ELSE IF IsSome(a.selected_object)
    THEN IF Unwrap(a.selected_object) >= Len(a.objects)
         THEN IndexPanic
         ELSE IF trajectory_panics(a.objects[Unwrap(a.selected_object) + 1], t)
              THEN PropagationErrorPanic
              ELSE NoPanic
    ELSE IF IsSome(a.hovered_object) /\ Unwrap(a.hovered_object) >= Len(a.objects)
    THEN IndexPanic
    ELSE NoPanic

\* App::render: the widgets record their areas and draw the objects.
render(a, t) ==
    LET a1 == [ a EXCEPT !.world_map_inner_area = MapInnerArea ]
        p == render_panic(a1, t)
    IN  IF p /= NoPanic THEN [ a1 EXCEPT !.panic = p ]
        ELSE [ a1 EXCEPT !.satellites_inner_area = SatellitesInnerArea ]

(***************************************************************************)
(* Keys and the periodic update.                                           *)
(***************************************************************************)
Keys ==
    { [ code |-> "Esc", modifiers |-> {} ],
      [ code |-> "c", modifiers |-> { "CONTROL" } ],
      [ code |-> "c", modifiers |-> {} ],
      [ code |-> "c", modifiers |-> { "CONTROL", "SHIFT" } ],
      [ code |-> "q", modifiers |-> {} ] }

\* A plausible bug: quit leaves the flag as it is.
quit_ignored(a) == a

\* App::quit
quit(a) == [ a EXCEPT !.running = FALSE ]

\* app.rs handle_key_events
handle_key_events(event, a) ==
    CASE event.code = "Esc" -> quit(a)
      [] event.code = "c" -> IF event.modifiers = { "CONTROL" } THEN quit(a) ELSE a
      [] OTHER -> a

ObjectUpdateIntervalSecs == 2 * 60

\* Whether App::update refreshes the objects at time t.
update_is_due(a, t) == t - a.last_object_update >= ObjectUpdateIntervalSecs

\* SatellitesState::refresh_objects, which App::update awaits: the rebuild
\* of the collection from the selected items.
refresh_objects(a, t, nets) == update_objects(a, t, nets)

\* App::update
update(a, t, nets) ==
    IF update_is_due(a, t)
    THEN Bind(refresh_objects(a, t, nets), LAMBDA a1 :
           IF a1.panic /= NoPanic THEN a1
           ELSE [ a1 EXCEPT !.last_object_update = t ])
    ELSE a

(***************************************************************************)
(* The inputs of the model.                                                *)
(***************************************************************************)
MouseKinds == { "DownLeft", "DownRight", "DownMiddle", "Moved", "ScrollDown", "ScrollUp" }
\* One cell outside every area, the two cells of the map, the cell of the list.
MouseCells == { << 0, 0 >>, << 1, 1 >>, << 2, 1 >>, << 4, 1 >> }
MouseEvents ==
    { [ kind |-> k, column |-> c[1], row |-> c[2] ] : k \in MouseKinds, c \in MouseCells }

NetErr == [ kind |-> "err", body |-> << >> ]

\* How the fetches of one update_objects call end, per item; an item that
\* is not selected makes no call.
NetChoices(its) ==
    { nets \in [ 1..Len(its) -> NetOutcomes ] :
        \A i \in 1..Len(its) : ~its[i].selected => nets[i] = NetErr }

(***************************************************************************)
(* The application as a state machine: each event is handled whole.        *)
(***************************************************************************)
AppState ==
    [ files |-> files, panic |-> panicked, items |-> items, objects |-> objects,
      last_object_update |-> last_object_update, list_state |-> list_state,
      satellites_inner_area |-> satellites_inner_area,
      world_map_inner_area |-> world_map_inner_area,
      selected_object |-> selected_object, hovered_object |-> hovered_object,
      running |-> running ]

Commit(v) ==
  \E a \in { v } :
    /\ files' = a.files
    /\ panicked' = a.panic
    /\ items' = a.items
    /\ objects' = a.objects
    /\ last_object_update' = a.last_object_update
    /\ list_state' = a.list_state
    /\ satellites_inner_area' = a.satellites_inner_area
    /\ world_map_inner_area' = a.world_map_inner_area
    /\ selected_object' = a.selected_object
    /\ hovered_object' = a.hovered_object
    /\ running' = a.running

\* `while self.running`, and no panic has ended the process.
Alive == running /\ panicked = NoPanic

InitCache ==
    /\ files = [ path \in CachePaths |-> None ]
    /\ now = 0
    /\ panicked = NoPanic
    /\ call = NoCall

\* App::new and the Default of the widget states.
InitApp ==
    /\ items = [ i \in 1..NItems |-> [ satellite |-> SatelliteIter[i], selected |-> FALSE ] ]
    /\ objects = << >>
    /\ last_object_update = 0
    /\ list_state = [ selected |-> None, offset |-> 0 ]
    /\ satellites_inner_area = DefaultRect
    /\ world_map_inner_area = DefaultRect
    /\ selected_object = None
    /\ hovered_object = None
    /\ running = TRUE
    /\ frame = [ torn |-> FALSE ]

NoNets == [ i \in 1..NItems |-> NetErr ]
NoEvent == [ kind |-> "Moved", column |-> 0, row |-> 0 ]
NoHandler == [ handler |-> "none", event |-> NoEvent, t |-> 0, i |-> 0 ]

InitLoop ==
    /\ queue = << >>
    /\ pc = "next"
    /\ cur = NoHandler

\* The trackers running on one cache directory, none of them inside
\* get_elements: held is the array a fetch returned and the call has yet to
\* write, seen the text the call read, ret what it returned.
Instances == { 1, 2 }
ProcIdle == [ pc |-> "idle", held |-> None, seen |-> None, ret |-> None ]

InitShared == procs = [ p \in Instances |-> ProcIdle ]

\* No object is selected: render_top_layer samples and draws no trajectory.
NoTrajectory ==
    [ phase |-> "idle", obj |-> ElemA, minutes |-> << >>, points |-> << >>,
      drawn |-> << >> ]

\* No lookup has been made on its own.
NoNearest == [ phase |-> "idle", x |-> 0, y |-> 0, at |-> 0, index |-> None ]

\* No fetch has been made on its own.
NoFetch ==
    [ phase |-> "idle", satellite |-> SatelliteIter[1], panic |-> NoPanic, val |-> None ]

\* No conversion has been made on its own.
NoJulian ==
    [ phase |-> "idle", datetime |-> DateTime(2000, 1, 1, 12, 0, 0),
      days |-> Days(0, 0), n |-> 0 ]

NoSidereal ==
    [ phase |-> "idle", julian_days |-> Days(J2000_EPOCH, 0), gmst |-> NaN ]

Init ==
    /\ InitCache /\ InitApp /\ InitLoop /\ InitShared
    /\ trajectory = NoTrajectory
    /\ nearest = NoNearest
    /\ fetch = NoFetch
    /\ julian = NoJulian
    /\ sidereal = NoSidereal

\* Event::Update
HandleUpdate ==
    /\ Alive
    /\ IF update_is_due(AppState, now)
       THEN \E nets \in NetChoices(items) : Commit(update(AppState, now, nets))
       ELSE Commit(AppState)
    /\ UNCHANGED << now, call, side_vars, frame, loop_vars >>

\* Event::Render
HandleRender ==
    /\ Alive
    /\ Commit(render(AppState, now))
    /\ frame' = [ torn |-> FALSE ]
    /\ UNCHANGED << now, call, side_vars, loop_vars >>

\* Event::Key
HandleKey(event) ==
    /\ Alive
    /\ Commit(handle_key_events(event, AppState))
    /\ UNCHANGED << now, call, side_vars, frame, loop_vars >>

\* Event::Mouse
HandleMouse(event) ==
    /\ Alive
    /\ IF list_click_updates(event, world_map_handle_mouse_events(event, AppState, now))
       THEN \E nets \in NetChoices(toggle_clicked_item(AppState).items) :
                Commit(handle_mouse_events(event, AppState, now, nets))
       ELSE Commit(handle_mouse_events(event, AppState, now, NoNets))
    /\ UNCHANGED << now, call, side_vars, frame, loop_vars >>

Next ==
    \/ Tick
    \/ HandleUpdate
    \/ HandleRender
    \/ \E event \in Keys : HandleKey(event)
    \/ \E event \in MouseEvents : HandleMouse(event)

Spec == Init /\ [][Next]_vars

(***************************************************************************)
(* The element cache on its own: calls of get_elements as time passes.     *)
(***************************************************************************)
\* The bodies the cache is exercised with: an entry and a different one.
CacheNetOutcomes ==
    { NetErr, [ kind |-> "malformed", body |-> << >> ],
      [ kind |-> "ok", body |-> << ElemA >> ],
      [ kind |-> "ok", body |-> << ElemA, ElemB >> ] }

NextCache ==
    \/ Tick
    \/ \E s \in TrackedSatellites, net \in CacheNetOutcomes : CallGetElements(s, net)

SpecCache == Init /\ [][NextCache]_vars

(***************************************************************************)
(* The event loop in steps.  The task of EventHandler::new sends events    *)
(* into the channel while the main loop of App::run is inside a handler;   *)
(* update_objects is taken one turn of its loop at a time.  The channel    *)
(* holds the kinds of the events; what an event carries is chosen when it  *)
(* is received, which the sender does not make depend on the application.  *)
(***************************************************************************)
EventKinds == { "Update", "Render", "Key", "Mouse" }

LoopKeys == { [ code |-> "Esc", modifiers |-> {} ], [ code |-> "q", modifiers |-> {} ] }
LoopMouseEvents ==
    { [ kind |-> "Moved", column |-> 4, row |-> 1 ],
      [ kind |-> "DownLeft", column |-> 4, row |-> 1 ],
      [ kind |-> "ScrollDown", column |-> 4, row |-> 1 ],
      [ kind |-> "DownLeft", column |-> 1, row |-> 1 ] }
LoopNetOutcomes == { NetErr, [ kind |-> "ok", body |-> << ElemA >> ] }

\* The clock advances.
LoopTick ==
    /\ panicked = NoPanic
    /\ now < LoopMaxTicks * TickSecs
    /\ now' = now + TickSecs
    /\ UNCHANGED << files, panicked, call, side_vars, app_vars, loop_vars >>

\* The sending task: _sender.send(..) on a tick or a terminal event.
Send(kind) ==
    /\ panicked = NoPanic
    /\ pc /= "exited"
    /\ Len(queue) < MaxQueue
    /\ queue' = Append(queue, kind)
    /\ UNCHANGED << cache_vars, side_vars, app_vars, pc, cur >>

\* A plausible bug: events are handled as they arrive, whatever the main
\* loop is doing (a handler spawned per event).
can_receive_any == TRUE

\* The main loop awaits events.next() only between two handlers.
can_receive == pc = "next"

Receivable(kind) ==
    /\ can_receive
    /\ Alive
    /\ queue /= << >>
    /\ Head(queue) = kind
    /\ queue' = Tail(queue)

\* `while self.running` ends the loop.
LoopExit ==
    /\ pc = "next"
    /\ panicked = NoPanic
    /\ ~running
    /\ pc' = "exited"
    /\ UNCHANGED << cache_vars, side_vars, app_vars, queue, cur >>

RecvRender ==
    /\ Receivable("Render")
    /\ Commit(render(AppState, now))
    /\ frame' = [ torn |-> pc = "item" ]
    /\ UNCHANGED << now, call, side_vars, pc, cur >>

RecvKey(event) ==
    /\ Receivable("Key")
    /\ Commit(handle_key_events(event, AppState))
    /\ UNCHANGED << now, call, side_vars, frame, pc, cur >>

\* App::update up to the call of update_objects.
RecvUpdate ==
    /\ Receivable("Update")
    /\ Commit(AppState)
    /\ IF update_is_due(AppState, now)
       THEN /\ pc' = "clear"
            /\ cur' = [ handler |-> "update", event |-> NoEvent, t |-> now, i |-> 0 ]
       ELSE UNCHANGED << pc, cur >>
    /\ UNCHANGED << now, call, side_vars, frame >>

\* handle_mouse_events up to the call of update_objects.
RecvMouse(event) ==
    /\ Receivable("Mouse")
    /\ LET a1 == world_map_handle_mouse_events(event, AppState, now)
       IN  IF a1.panic = NoPanic /\ list_click_updates(event, a1)
           THEN /\ Commit(toggle_clicked_item(a1))
                /\ pc' = "clear"
                /\ cur' = [ handler |-> "mouse", event |-> event, t |-> now, i |-> 0 ]
           ELSE /\ Commit(handle_mouse_events(event, AppState, now, NoNets))
                /\ UNCHANGED << pc, cur >>
    /\ UNCHANGED << now, call, side_vars, frame >>

\* update_objects: self.objects.clear()
StepClear ==
    /\ pc = "clear"
    /\ panicked = NoPanic
    /\ Commit(clear_objects(AppState))
    /\ pc' = IF Len(items) = 0 THEN "tail" ELSE "item"
    /\ cur' = [ cur EXCEPT !.i = 1 ]
    /\ UNCHANGED << now, call, side_vars, frame, queue >>

\* update_objects: one turn of `for item in &mut self.items`, the fetch of
\* the turn (if it makes one) ending as net.
StepItem(net) ==
    /\ pc = "item"
    /\ panicked = NoPanic
    /\ Commit(update_item(AppState, cur.i, now, net))
    /\ pc' = IF cur.i >= Len(items) THEN "tail" ELSE "item"
    /\ cur' = [ cur EXCEPT !.i = @ + 1 ]
    /\ UNCHANGED << now, call, side_vars, frame, queue >>

\* What the handler does after update_objects has returned.
StepTail ==
    /\ pc = "tail"
    /\ panicked = NoPanic
    /\ IF cur.handler = "update"
       THEN Commit([ AppState EXCEPT !.last_object_update = cur.t ])
       ELSE Commit(highlight_hovered_item(cur.event, AppState))
    /\ pc' = "next"
    /\ cur' = NoHandler
    /\ UNCHANGED << now, call, side_vars, frame, queue >>

NextLoop ==
    \/ LoopTick
    \/ \E kind \in EventKinds : Send(kind)
    \/ LoopExit
    \/ RecvRender
    \/ \E event \in LoopKeys : RecvKey(event)
    \/ RecvUpdate
    \/ \E event \in LoopMouseEvents : RecvMouse(event)
    \/ StepClear
    \/ \E net \in LoopNetOutcomes : StepItem(net)
    \/ StepTail

SpecLoop == Init /\ [][NextLoop]_vars

\* The main loop is a task that runs on: once the handler of an event has
\* returned with running false, `while self.running` is evaluated and the
\* loop ends.
SpecLoopLive == SpecLoop /\ WF_vars(LoopExit)

(***************************************************************************)
(* Two trackers on one cache directory.  Each runs get_elements for the    *)
(* same catalogue entry, one file system call at a time; std::fs::write is *)
(* File::create (which truncates the file) followed by write_all.          *)
(***************************************************************************)
SharedKey == SatelliteIter[1]
SharedPath == cache_path(SharedKey)
SharedNetOutcomes ==
    { NetErr, [ kind |-> "ok", body |-> << ElemA >> ],
      [ kind |-> "ok", body |-> << ElemA, ElemB >> ] }

\* The text of a file that File::create has just truncated.
EmptyText == [ json |-> "eof", records |-> << >> ]

\* Whether serde_json::from_str parses the text.
json_is_valid(text) == text.json \in { "array", "null" }

\* File::create: the file exists and is empty.
fs_create(fs, path, t) ==
    [ fs EXCEPT ![path] = Some([ content |-> EmptyText, modified |-> t ]) ]

\* write_all on the file just created.
fs_write_all(fs, path, text, t) ==
    [ fs EXCEPT ![path] = Some([ content |-> text, modified |-> t ]) ]

\* get_elements begins: fs::exists.
GetExists(p) ==
    /\ procs[p].pc = "idle"
    /\ procs' = [ procs EXCEPT ![p] =
                   [ ProcIdle EXCEPT !.pc = IF fs_exists(files, SharedPath)
                                            THEN "age" ELSE "fetch1" ] ]
    /\ UNCHANGED << cache_vars, app_vars, loop_vars, trajectory, nearest, fetch, julian, sidereal >>

\* self.fetch_elements(), for the missing entry (fetch1) or the expired one
\* (fetch2).
GetFetch(p, net) ==
    /\ procs[p].pc \in { "fetch1", "fetch2" }
    /\ LET fetched == fetch_elements(SharedKey, net)
           first == procs[p].pc = "fetch1"
       IN  procs' = [ procs EXCEPT ![p] =
             IF fetched.panic /= NoPanic THEN [ @ EXCEPT !.pc = "panicked" ]
             ELSE IF IsSome(fetched.val)
             THEN [ @ EXCEPT !.pc = IF first THEN "create1" ELSE "create2",
                             !.held = fetched.val ]
             ELSE IF first THEN [ @ EXCEPT !.pc = "idle", !.ret = None ]
             ELSE [ @ EXCEPT !.pc = "read" ] ]
    /\ UNCHANGED << cache_vars, app_vars, loop_vars, trajectory, nearest, fetch, julian, sidereal >>

\* fs::write, first half: File::create.
GetCreate(p) ==
    /\ procs[p].pc \in { "create1", "create2" }
    /\ files' = fs_create(files, SharedPath, now)
    /\ procs' = [ procs EXCEPT ![p].pc = IF @ = "create1" THEN "write1" ELSE "write2" ]
    /\ UNCHANGED << now, panicked, call, app_vars, loop_vars, trajectory, nearest, fetch, julian, sidereal >>

\* fs::write, second half: write_all.
GetWriteAll(p) ==
    /\ procs[p].pc \in { "write1", "write2" }
    /\ files' = fs_write_all(files, SharedPath,
                             json_to_string(Unwrap(procs[p].held)), now)
    /\ procs' = [ procs EXCEPT ![p].pc = IF @ = "write1" THEN "age" ELSE "read",
                                ![p].held = None ]
    /\ UNCHANGED << now, panicked, call, app_vars, loop_vars, trajectory, nearest, fetch, julian, sidereal >>

\* fs::metadata(..).modified().elapsed() and the test of the age.
GetAge(p) ==
    /\ procs[p].pc = "age"
    /\ procs' = [ procs EXCEPT ![p].pc =
                   IF is_cache_expired(now - fs_modified(files, SharedPath))
                   THEN "fetch2" ELSE "read" ]
    /\ UNCHANGED << cache_vars, app_vars, loop_vars, trajectory, nearest, fetch, julian, sidereal >>

\* fs::read_to_string and serde_json::from_str(..).unwrap().
GetRead(p) ==
    /\ procs[p].pc = "read"
    /\ LET text == fs_read_to_string(files, SharedPath)
       IN  procs' = [ procs EXCEPT ![p] =
             IF json_is_valid(text)
             THEN [ @ EXCEPT !.pc = "idle", !.seen = Some(text),
                             !.ret = json_from_str(text) ]
             ELSE [ @ EXCEPT !.pc = "panicked", !.seen = Some(text) ] ]
    /\ UNCHANGED << cache_vars, app_vars, loop_vars, trajectory, nearest, fetch, julian, sidereal >>

NextShared ==
    \/ Tick
    \/ \E p \in Instances : GetExists(p)
    \/ \E p \in Instances, net \in SharedNetOutcomes : GetFetch(p, net)
    \/ \E p \in Instances : GetCreate(p)
    \/ \E p \in Instances : GetWriteAll(p)
    \/ \E p \in Instances : GetAge(p)
    \/ \E p \in Instances : GetRead(p)

SpecShared == Init /\ [][NextShared]_vars

(***************************************************************************)
(* The trajectory of a selected object on its own: render_top_layer        *)
(* samples the points, then draws the lines window by window.  The objects *)
(* are those of the catalogue and objects of a 4-minute period on every    *)
(* ground track of three points.                                           *)
(***************************************************************************)
TrackLons == { -180 * Deg, -170 * Deg, 0, 170 * Deg, 180 * Deg }
TrackLats == { -10 * Deg, 0, 80 * Deg }
TrackPoints == { [ lon |-> x, lat |-> y ] : x \in TrackLons, y \in TrackLats }

TrajectoryObjects ==
    { ElemA, ElemB, ElemD }
    \cup { ElemOnTrack(9, 360, TRUE, FALSE, << a, b, c >>) :
              a \in TrackPoints, b \in TrackPoints, c \in TrackPoints }

InitTrajectory ==
    /\ InitCache /\ InitApp /\ InitLoop /\ InitShared
    /\ nearest = NoNearest
    /\ fetch = NoFetch
    /\ julian = NoJulian
    /\ sidereal = NoSidereal
    /\ \E obj \in TrajectoryObjects :
           trajectory = [ NoTrajectory EXCEPT !.phase = "sample", !.obj = obj ]

\* `let state = selected.predict(Utc::now()).unwrap()`
TrajectoryBegin ==
    /\ trajectory.phase = "sample"
    /\ trajectory' = [ trajectory EXCEPT !.phase =
                         IF predict(trajectory.obj, now).ok THEN "push" ELSE "panicked" ]
    /\ UNCHANGED << cache_vars, app_vars, loop_vars, procs, nearest, fetch, julian, sidereal >>

\* One turn of `for minutes in 1..period`: predict(..).unwrap() and push.
TrajectoryPush ==
    /\ trajectory.phase = "push"
    /\ LET minutes == Len(trajectory.minutes) + 1
           state == predict(trajectory.obj, now + minutes * 60)
       IN  /\ minutes < sample_end(trajectory.obj)
           /\ trajectory' =
                 IF ~state.ok THEN [ trajectory EXCEPT !.phase = "panicked" ]
                 ELSE [ trajectory EXCEPT
                          !.minutes = Append(@, minutes),
                          !.points = Append(@, << state.lon, state.lat >>) ]
    /\ UNCHANGED << cache_vars, app_vars, loop_vars, procs, nearest, fetch, julian, sidereal >>

\* The range is exhausted: the points are sampled.
TrajectorySampled ==
    /\ trajectory.phase = "push"
    /\ Len(trajectory.minutes) + 1 >= sample_end(trajectory.obj)
    /\ trajectory' = [ trajectory EXCEPT !.phase = "draw" ]
    /\ UNCHANGED << cache_vars, app_vars, loop_vars, procs, nearest, fetch, julian, sidereal >>

\* One turn of `for window in points.windows(2)`.
TrajectoryDrawWindow ==
    /\ trajectory.phase = "draw"
    /\ Len(trajectory.drawn) + 1 < Len(trajectory.points)
    /\ LET k == Len(trajectory.drawn) + 1
       IN  trajectory' =
             [ trajectory EXCEPT !.drawn =
                 Append(@, draw_window(trajectory.points[k], trajectory.points[k + 1])) ]
    /\ UNCHANGED << cache_vars, app_vars, loop_vars, procs, nearest, fetch, julian, sidereal >>

\* The loop is over: the selected object is highlighted.
TrajectoryHighlight ==
    /\ trajectory.phase = "draw"
    /\ Len(trajectory.drawn) + 1 >= Len(trajectory.points)
    /\ trajectory' = [ trajectory EXCEPT !.phase = "done" ]
    /\ UNCHANGED << cache_vars, app_vars, loop_vars, procs, nearest, fetch, julian, sidereal >>

NextTrajectory ==
    \/ Tick
    \/ TrajectoryBegin
    \/ TrajectoryPush
    \/ TrajectorySampled
    \/ TrajectoryDrawWindow
    \/ TrajectoryHighlight

SpecTrajectory == InitTrajectory /\ [][NextTrajectory]_vars

(***************************************************************************)
(* get_nearest_object on its own (SpecNearest): a catalogue of objects     *)
(* standing within a few hundredths of a degree of one another, a map of   *)
(* 4 x 2 cells, and one lookup for any of the cells.                       *)
(***************************************************************************)
NearestMaxObjects == 3

NearestArea == [ x |-> 1, y |-> 1, width |-> 4, height |-> 2 ]

NearLons == { -3, 0, 3 }
NearLats == { 0, 4 }
NearObjects ==
    { ElemOnTrack(9, 16, TRUE, FALSE, << [ lon |-> x, lat |-> y ] >>) :
          x \in NearLons, y \in NearLats }
    \cup { ElemD }

RECURSIVE SeqsUpTo(_, _)
\* The sequences over S of at most n members.
SeqsUpTo(S, n) ==
    IF n = 0 THEN { << >> }
    ELSE LET shorter == SeqsUpTo(S, n - 1)
         IN  shorter \cup { Append(q, e) : q \in shorter, e \in S }

InitNearest ==
    /\ InitCache /\ InitLoop /\ InitShared
    /\ trajectory = NoTrajectory
    /\ items = [ i \in 1..NItems |-> [ satellite |-> SatelliteIter[i], selected |-> FALSE ] ]
    /\ objects \in SeqsUpTo(NearObjects, NearestMaxObjects)
    /\ last_object_update = 0
    /\ list_state = [ selected |-> None, offset |-> 0 ]
    /\ satellites_inner_area = DefaultRect
    /\ world_map_inner_area = NearestArea
    /\ selected_object = None
    /\ hovered_object = None
    /\ running = TRUE
    /\ frame = [ torn |-> FALSE ]
    /\ nearest = [ NoNearest EXCEPT !.phase = "query" ]
    /\ fetch = NoFetch
    /\ julian = NoJulian
    /\ sidereal = NoSidereal

\* get_nearest_object(app, x, y) for a cell of the map.
NearestLookup(x, y) ==
    /\ nearest.phase = "query"
    /\ LET got == get_nearest_object(AppState, x, y, now)
       IN  nearest' = [ phase |-> IF got.panic /= NoPanic THEN "panicked" ELSE "done",
                        x |-> x, y |-> y, at |-> now, index |-> got.index ]
    /\ UNCHANGED << cache_vars, app_vars, loop_vars, procs, trajectory, fetch, julian, sidereal >>

NextNearest ==
    \/ Tick
    \/ \E x \in 0..(NearestArea.width - 1), y \in 0..(NearestArea.height - 1) :
           NearestLookup(x, y)

SpecNearest == InitNearest /\ [][NextNearest]_vars

(***************************************************************************)
(* fetch_elements on its own (SpecFetch): one fetch for any entry of the   *)
(* catalogue, ending in any of the ways a GET can end.                     *)
(***************************************************************************)
InitFetch ==
    /\ InitCache /\ InitApp /\ InitLoop /\ InitShared
    /\ trajectory = NoTrajectory
    /\ nearest = NoNearest
    /\ julian = NoJulian
    /\ sidereal = NoSidereal
    /\ \E s \in Satellite :
           fetch = [ NoFetch EXCEPT !.phase = "call", !.satellite = s ]

\* self.fetch_elements(), the GET ending as net.
FetchElements(net) ==
    /\ fetch.phase = "call"
    /\ LET got == fetch_elements(fetch.satellite, net)
       IN  fetch' = [ fetch EXCEPT
                        !.phase = IF got.panic /= NoPanic THEN "panicked" ELSE "done",
                        !.panic = got.panic, !.val = got.val ]
    /\ UNCHANGED << cache_vars, app_vars, loop_vars, procs, trajectory, nearest, julian, sidereal >>

NextFetch ==
    \/ Tick
    \/ \E net \in NetOutcomes : FetchElements(net)

SpecFetch == InitFetch /\ [][NextFetch]_vars

(***************************************************************************)
(* julian_days_from_utc on its own (SpecJulian): the conversion of a date  *)
(* and time, then of the same time of day on the days that follow it.  The *)
(* dates lie before the ends of months and years, before 29 February and  *)
(* where a year has none, and before the year 0.                           *)
(***************************************************************************)
JulianMaxDays == 4

JulianDates ==
    { << 1999, 12, 30 >>, << 2000, 2, 27 >>, << 2100, 2, 26 >>,
      << 1900, 2, 26 >>, << 2024, 12, 29 >>, << 2023, 2, 26 >>,
      << 1969, 12, 30 >>, << 1858, 11, 15 >>, << 0, 2, 27 >>,
      << -1, 12, 30 >> }

JulianTimes ==
    { << 0, 0, 0 >>, << 6, 0, 0 >>, << 12, 0, 0 >>, << 18, 30, 1 >>,
      << 23, 59, 59 >> }

InitJulian ==
    /\ InitCache /\ InitApp /\ InitLoop /\ InitShared
    /\ trajectory = NoTrajectory
    /\ nearest = NoNearest
    /\ fetch = NoFetch
    /\ sidereal = NoSidereal
    /\ \E d \in JulianDates, t \in JulianTimes :
           julian = [ NoJulian EXCEPT
                        !.phase = "call",
                        !.datetime = DateTime(d[1], d[2], d[3], t[1], t[2], t[3]) ]

\* julian_days_from_utc(time).
JulianCall ==
    /\ julian.phase = "call"
    /\ julian' = [ julian EXCEPT !.phase = "done",
                                 !.days = julian_days_from_utc(julian.datetime) ]
    /\ UNCHANGED << cache_vars, app_vars, loop_vars, procs, trajectory, nearest,
                    fetch, sidereal >>

\* julian_days_from_utc(time) a day of the calendar later.
JulianNextDay ==
    /\ julian.phase = "done"
    /\ julian.n < JulianMaxDays
    /\ LET time == NextDay(julian.datetime)
       IN  julian' = [ julian EXCEPT !.datetime = time,
                                     !.days = julian_days_from_utc(time),
                                     !.n = @ + 1 ]
    /\ UNCHANGED << cache_vars, app_vars, loop_vars, procs, trajectory, nearest,
                    fetch, sidereal >>

NextJulian ==
    \/ JulianCall
    \/ JulianNextDay

SpecJulian == InitJulian /\ [][NextJulian]_vars

(***************************************************************************)
(* gmst_from_julian_days on its own (SpecSidereal): one call, for Julian   *)
(* days about J2000, on both sides of the zero of the formula (near        *)
(* 2451544.223), and for Julian days of either sign up to the largest f64. *)
(***************************************************************************)
SiderealDays ==
    { Days(J2000_EPOCH + d, s) :
        d \in { -40000, -3653, -366, -2, -1, 0, 1, 365, 9000, 40000 },
        s \in { 0, 19260, 19320, SecondsPerDay \div 2, SecondsPerDay - 1 } }

SiderealHuge ==
    { Huge(neg, 100 * e) : neg \in BOOLEAN, e \in { 100, 107, 108, 200, 308 } }

\* What % 360.0 can leave of a Huge, in hundredths of a degree.
HugeRemainders == { 0, 100, 18000, 35900 }

InitSidereal ==
    /\ InitCache /\ InitApp /\ InitLoop /\ InitShared
    /\ trajectory = NoTrajectory
    /\ nearest = NoNearest
    /\ fetch = NoFetch
    /\ julian = NoJulian
    /\ \E jd \in SiderealDays \cup SiderealHuge :
           sidereal = [ NoSidereal EXCEPT !.phase = "call", !.julian_days = jd ]

\* gmst_from_julian_days(julian_days).
SiderealCall(rem) ==
    /\ sidereal.phase = "call"
    /\ sidereal' = [ sidereal EXCEPT
                       !.phase = "done",
                       !.gmst = gmst_from_julian_days(sidereal.julian_days, rem) ]
    /\ UNCHANGED << cache_vars, app_vars, loop_vars, procs, trajectory, nearest,
                    fetch, julian >>

NextSidereal == \E rem \in HugeRemainders : SiderealCall(rem)

SpecSidereal == InitSidereal /\ [][NextSidereal]_vars

(***************************************************************************)
(* Properties of the element cache (SpecCache).  `call` is the last call   *)
(* of get_elements: the entry it found (pre), how its fetch ended (net),   *)
(* what it returned (ret) and how many fetches it attempted.               *)
(***************************************************************************)
CallHadEntry == call.made /\ IsSome(call.pre)
CallAge == call.at - Unwrap(call.pre).modified
CallEntryAfter == files[cache_path(call.sat)]
CachedRecords(entry) == Unwrap(entry).content.records

\* C1: when an entry exists and the refetch the call attempts fails, the
\* call returns the cached data (neither Unavailable nor a panic) and the
\* stored entry, content and fetch timestamp, is what it was before.
C1_StaleFallbackOnFailedRefetch ==
    (CallHadEntry /\ call.fetches > 0 /\ call.net.kind = "err")
        => /\ call.panic = NoPanic
           /\ call.ret = Some(CachedRecords(call.pre))
           /\ CallEntryAfter = call.pre

C1_Witness ==
    /\ CallHadEntry /\ call.fetches > 0 /\ call.net.kind = "err"
    /\ call.ret = Some(<< ElemA, ElemB >>)

FreshHit(c) ==
    /\ c.made /\ IsSome(c.pre)
    /\ c.at - Unwrap(c.pre).modified < CacheMaxAgeSecs

\* C2: a call that finds an entry younger than 2 hours returns the cached
\* data without a fetch attempt and leaves the entry alone, and it returns
\* the same data as the call on the same key just before it.
C2_FreshEntryServedWithoutFetch ==
    [][ FreshHit(call') =>
          /\ call'.fetches = 0
          /\ call'.panic = NoPanic
          /\ call'.ret = Some(CachedRecords(call'.pre))
          /\ files'[cache_path(call'.sat)] = call'.pre
          /\ (call.made /\ call.sat = call'.sat /\ call.panic = NoPanic /\ IsSome(call.ret))
                => call'.ret = call.ret ]_vars

C2_Witness ==
    /\ FreshHit(call) /\ call.at > 0 /\ call.fetches = 0
    /\ call.net.kind = "ok" /\ call.ret /= Some(call.net.body)

\* C3: when no entry exists and the fetch fails, the call returns
\* Unavailable (None, not an empty array) and creates no entry.
C3_UnavailableWithoutCache ==
    (call.made /\ ~IsSome(call.pre) /\ call.net.kind = "err")
        => /\ call.panic = NoPanic
           /\ call.ret = None
           /\ CallEntryAfter = None

C3_Witness ==
    /\ call.made /\ ~IsSome(call.pre) /\ call.net.kind = "err" /\ call.ret = None
    /\ call.at > 0

\* C4: a fetch that succeeds, with or without a prior entry, makes the
\* fetched array the key's stored entry and the data the call returns.
C4_SuccessfulFetchReplacesEntry ==
    (call.made /\ call.fetches > 0 /\ call.net.kind = "ok")
        => /\ call.panic = NoPanic
           /\ call.ret = Some(call.net.body)
           /\ IsSome(CallEntryAfter)
           /\ CachedRecords(CallEntryAfter) = call.net.body
           /\ Unwrap(CallEntryAfter).modified = call.at

C4_Witness ==
    /\ CallHadEntry /\ call.fetches > 0 /\ call.net.kind = "ok"
    /\ CachedRecords(call.pre) /= call.net.body
    /\ call.ret = Some(call.net.body)

\* C5: an entry, once it exists, is never deleted, and a call returns
\* Unavailable only when it found no entry.
C5_EntryNeverLostNorUnavailable ==
    [][ /\ \A path \in CachePaths : IsSome(files[path]) => IsSome(files'[path])
        /\ (call'.made /\ call'.panic = NoPanic /\ call'.ret = None)
              => ~IsSome(files[cache_path(call'.sat)]) ]_vars

C5_Witness ==
    /\ CallHadEntry /\ call.fetches > 0 /\ call.net.kind /= "ok"
    /\ IsSome(CallEntryAfter)
    /\ \A path \in CachePaths : IsSome(files[path])

\* C6 as claimed: an entry is refetched exactly when its age is 2 hours or
\* more.
C6_RefetchFromTwoHours ==
    CallHadEntry => (call.fetches > 0 <=> CallAge >= CacheMaxAgeSecs)

\* C6 as amended: an entry is refetched exactly when its age is more than
\* 2 hours; an entry of exactly 2 hours is served without a fetch.
C6_RefetchAfterTwoHours ==
    CallHadEntry => (call.fetches > 0 <=> CallAge > CacheMaxAgeSecs)

C6_Witness ==
    CallHadEntry /\ CallAge = CacheMaxAgeSecs /\ call.fetches = 0 /\ IsSome(call.ret)

\* C7: a fetch whose body is malformed counts as a failed fetch: the call
\* does not panic, and returns the stale data of an existing entry or
\* Unavailable without one.
C7_MalformedBodyIsFailedFetch ==
    (call.made /\ call.fetches > 0 /\ call.net.kind = "malformed")
        => /\ call.panic = NoPanic
           /\ call.ret = IF IsSome(call.pre) THEN Some(CachedRecords(call.pre)) ELSE None

(***************************************************************************)
(* Properties of the application (Spec) and of its event loop (SpecLoop).  *)
(***************************************************************************)
\* The records of the cached array of item i.
CachedOf(i) == CachedRecords(files[cache_path(items[i].satellite)])

\* C8: a record rejected at construction does not abort the process, and
\* the constructible records of the selected items are tracked objects.
C8_RejectedRecordDropsOnlyThatObject ==
    /\ panicked /= ElementsErrorPanic
    /\ panicked = NoPanic =>
         \A i \in 1..Len(items) :
             (items[i].selected /\ IsSome(files[cache_path(items[i].satellite)])) =>
                 \A k \in 1..Len(CachedOf(i)) :
                     CachedOf(i)[k].constructible =>
                         \E j \in 1..Len(objects) : objects[j] = CachedOf(i)[k]

\* C9: a failed propagation of one tracked object does not end the
\* process: rendering and nearest-object picking skip that object.
C9_FailedPropagationSkipsOnlyThatObject ==
    panicked /= PropagationErrorPanic

\* C10: no render sees the collection while update_objects is rebuilding
\* it (cleared, or holding the objects of only some selected items).
C10_RenderNeverSeesPartialCollection ==
    ~frame.torn

\* After a render, the rebuild a left click started is half-way (the first
\* item's objects are in, the second item is still to come) while the next
\* Render event waits in the channel.
C10_Witness ==
    /\ satellites_inner_area = SatellitesInnerArea
    /\ cur.handler = "mouse"
    /\ pc = "item" /\ cur.i = 2 /\ items[2].selected /\ objects /= << >>
    /\ queue /= << >> /\ Head(queue) = "Render"
\* C11: a get_elements call that runs while another tracker writes the same
\* entry reads a whole text, the old one or the new one, never an empty or
\* partial one.
C11_ReaderSeesWholeEntry ==
    \A p \in Instances :
        IsSome(procs[p].seen) => Unwrap(procs[p].seen).json = "array"

(***************************************************************************)
(* Properties of the trajectory (SpecTrajectory).  Window k is the pair of *)
(* points k and k + 1; drawn[k] holds the lines drawn for it.              *)
(***************************************************************************)
WindowFrom(k) == trajectory.points[k]
WindowTo(k) == trajectory.points[k + 1]
DrawnWindows == 1..Len(trajectory.drawn)
LonApart(k) == Abs(WindowFrom(k)[1] - WindowTo(k)[1]) >= 180 * Deg
LatApart(k) == Abs(WindowFrom(k)[2] - WindowTo(k)[2]) >= 90 * Deg

\* The edge on the side of a longitude (either edge for longitude 0).
EdgeOnSideOf(lon, edge) ==
    /\ edge \in { 180 * Deg, -180 * Deg }
    /\ lon > 0 => edge = 180 * Deg
    /\ lon < 0 => edge = -180 * Deg

\* The line runs from the first point of window k to its second point.
JoinsWindow(line, k) ==
    /\ << line.x1, line.y1 >> = WindowFrom(k)
    /\ << line.x2, line.y2 >> = WindowTo(k)

\* C12: a pair of consecutive points 180 degrees of longitude or more apart
\* is drawn as exactly two lines, the first from p1 to the edge on p1's
\* side, the second from the opposite edge to p2, and neither of them runs
\* from p1 to p2.
C12_SplitAtAntimeridian ==
    \A k \in DrawnWindows :
        LonApart(k) =>
            LET lines == trajectory.drawn[k]
            IN  /\ Len(lines) = 2
                /\ << lines[1].x1, lines[1].y1 >> = WindowFrom(k)
                /\ EdgeOnSideOf(WindowFrom(k)[1], lines[1].x2)
                /\ lines[2].x1 = -lines[1].x2
                /\ << lines[2].x2, lines[2].y2 >> = WindowTo(k)
                /\ ~JoinsWindow(lines[1], k)
                /\ ~JoinsWindow(lines[2], k)

\* C13: no line drawn for a trajectory spans more than 180 degrees of
\* longitude between its two ends.
C13_NoLineSpansMoreThanHalfTurn ==
    \A k \in DrawnWindows :
        \A i \in 1..Len(trajectory.drawn[k]) :
            Abs(trajectory.drawn[k][i].x1 - trajectory.drawn[k][i].x2) <= 180 * Deg

\* C14: a pair of consecutive points 90 degrees of latitude or more apart
\* gets no line at all, and once the trajectory is drawn every pair has had
\* its turn.
C14_LatitudeJumpDrawsNothing ==
    /\ \A k \in DrawnWindows : LatApart(k) => trajectory.drawn[k] = << >>
    /\ trajectory.phase = "done" /\ trajectory.points /= << >>
           => Len(trajectory.drawn) = Len(trajectory.points) - 1

\* The period in whole minutes of an object whose mean motion (rev/day)
\* divides the minutes of a day.
MinutesPerDay == 24 * 60
HasWholeMinutePeriod(obj) == MinutesPerDay % obj.mean_motion = 0
PeriodMinutes(obj) == MinutesPerDay \div obj.mean_motion

\* C15: for a period of P whole minutes the points sampled are those of the
\* minutes 1, 2, .., P - 1 after the reference time, in this order, and
\* P - 1 of them once the sampling is over; minute 0 is not among them.
C15_SamplesMinutesOneToPeriod ==
    HasWholeMinutePeriod(trajectory.obj) =>
        /\ Len(trajectory.points) = Len(trajectory.minutes)
        /\ \A i \in 1..Len(trajectory.minutes) :
               trajectory.minutes[i] = i /\ i <= PeriodMinutes(trajectory.obj) - 1
        /\ trajectory.phase \in { "draw", "done" }
               => Len(trajectory.points) = PeriodMinutes(trajectory.obj) - 1

\* The trajectory of an object of a 90-minute period is sampled and drawn.
C15_Witness ==
    /\ trajectory.phase = "done"
    /\ PeriodMinutes(trajectory.obj) = 90
    /\ Len(trajectory.points) = 89

(***************************************************************************)
(* Properties of get_nearest_object (SpecNearest).  `nearest` is the       *)
(* lookup made: the cell (x, y), the time and the index returned.          *)
(***************************************************************************)
LookupDone == nearest.phase = "done"

\* The squared planar distance, in square hundredths of a degree, between
\* object k (1-based) and the point of the cell looked up.
SquaredDistance(k) ==
    LET state == predict(objects[k], nearest.at)
        q == area_to_lon_lat(nearest.x, nearest.y, world_map_inner_area)
    IN  (state.lon - q.lon) * (state.lon - q.lon)
          + (state.lat - q.lat) * (state.lat - q.lat)

\* C16: the index a lookup returns is that of an object at the least squared
\* planar distance from the point looked up, and of the earliest such
\* object in the order of the collection.
C16_NearestIsMinimalAndEarliest ==
    LookupDone /\ IsSome(nearest.index) =>
        LET r == Unwrap(nearest.index) + 1
        IN  /\ \A k \in 1..Len(objects) : SquaredDistance(r) <= SquaredDistance(k)
            /\ \A k \in 1..(r - 1) : SquaredDistance(k) /= SquaredDistance(r)

\* C17: a lookup returns an index exactly when the collection has an
\* object: nothing for an empty collection, and index 0 for a collection of
\* one object, whatever the cell looked up.
C17_IndexIffNonEmpty ==
    LookupDone =>
        /\ IsSome(nearest.index) <=> objects /= << >>
        /\ Len(objects) = 1 => nearest.index = Some(0)
        /\ IsSome(nearest.index) => Unwrap(nearest.index) < Len(objects)

\* A collection of one object was looked up from a cell other than the
\* object's own.
C17_Witness ==
    /\ LookupDone
    /\ Len(objects) = 1
    /\ nearest.index = Some(0)
    /\ SquaredDistance(1) > 0

(***************************************************************************)
(* Properties of the map's mouse handling (Spec).                          *)
(***************************************************************************)
OverMap(event) == rect_contains(world_map_inner_area, event.column, event.row)

\* The mouse events over the map that press neither the left nor the right
\* button, and the pointer movements that end outside the map.
NoPressOverMap ==
    { event \in MouseEvents :
        OverMap(event) /\ event.kind \notin { "DownLeft", "DownRight" } }
MovedOutOfMap == { event \in MouseEvents : ~OverMap(event) /\ event.kind = "Moved" }

\* C18: in every state the application reaches, handling a mouse event over
\* the map that presses neither the left nor the right button leaves
\* selected_object as it is, and handling a pointer movement outside the map
\* sets hovered_object to None and leaves selected_object as it is.
C18_SelectionIndependentOfHover ==
    Alive =>
        /\ \A event \in NoPressOverMap :
               handle_mouse_events(event, AppState, now, NoNets).selected_object
                   = selected_object
        /\ \A event \in MovedOutOfMap :
               LET a == handle_mouse_events(event, AppState, now, NoNets)
               IN  a.hovered_object = None /\ a.selected_object = selected_object

\* One object is selected while the pointer is over another.
C18_Witness ==
    /\ Alive
    /\ IsSome(selected_object)
    /\ IsSome(hovered_object)
    /\ selected_object /= hovered_object

(***************************************************************************)
(* Properties of update_objects (SpecLoop): the refresh that is about to   *)
(* run in the states with pc = "clear", for every way its fetches can end. *)
(***************************************************************************)
\* What get_elements answers for item i when its fetch ends as net.
ElementsOf(i, net) == get_elements(files, items[i].satellite, now, net).ret

\* C19: in a refresh that runs to its end, a selected item whose elements
\* are unavailable (get_elements is None) ends unselected; a selected item
\* whose elements are available ends selected with each of its records among
\* the objects; an item that was not selected stays so.
C19_OnlyUnavailableGroupUnselected ==
    pc = "clear" /\ panicked = NoPanic =>
        \A nets \in NetChoices(items) :
            LET r == update_objects(AppState, now, nets)
            IN  r.panic = NoPanic =>
                  \A i \in 1..Len(items) :
                      LET got == ElementsOf(i, nets[i])
                      IN  IF ~items[i].selected \/ ~IsSome(got)
                          THEN ~r.items[i].selected
                          ELSE /\ r.items[i].selected
                               /\ \A k \in 1..Len(Unwrap(got)) :
                                      \E j \in 1..Len(r.objects) :
                                          r.objects[j] = Unwrap(got)[k]

\* The refresh after a click on an item of the list has run: the item
\* clicked has no cache entry and is unselected again, while another item
\* is still selected with its records among the objects.
C19_Witness ==
    /\ pc = "tail" /\ cur.handler = "mouse" /\ panicked = NoPanic
    /\ IsSome(list_state.selected)
    /\ LET clicked == Unwrap(list_state.selected) + 1
       IN  /\ ~items[clicked].selected
           /\ files[cache_path(items[clicked].satellite)] = None
           /\ \E i \in 1..Len(items) :
                  /\ i /= clicked
                  /\ items[i].selected
                  /\ CachedOf(i) /= << >>
                  /\ \A k \in 1..Len(CachedOf(i)) :
                         \E j \in 1..Len(objects) : objects[j] = CachedOf(i)[k]

(***************************************************************************)
(* Properties of the catalogue and fetch_elements (SpecFetch).             *)
(***************************************************************************)
\* C20: every entry of the catalogue has an international designator or a
\* group name and not both, and no fetch ends in the unreachable!() arm of
\* the match on the two.
C20_ExactlyOneUpstreamParameter ==
    /\ \A s \in Satellite : IsSome(cospar_id(s)) /= IsSome(group(s))
    /\ fetch.panic /= "entered unreachable code"

\* An entry fetched by designator has answered with an array of records.
C20_Witness ==
    /\ fetch.phase = "done"
    /\ fetch.satellite = "Dfh1"
    /\ IsSome(cospar_id(fetch.satellite)) /\ ~IsSome(group(fetch.satellite))
    /\ IsSome(fetch.val)

(***************************************************************************)
(* Properties of the cache paths (SpecCache).                              *)
(***************************************************************************)
\* No two entries of the catalogue have the same cache file.
PathsDistinct ==
    \A s1 \in Satellite, s2 \in Satellite :
        cache_path(s1) = cache_path(s2) => s1 = s2

ValidIndex(o) == IsSome(o) => Unwrap(o) < Len(objects)

\* C25: in every state the application reaches and runs on from,
\* selected_object and hovered_object are None or an index below the
\* length of the collection of tracked objects.
C25_IndicesWithinCollection ==
    panicked = NoPanic => ValidIndex(selected_object) /\ ValidIndex(hovered_object)

(***************************************************************************)
(* Properties of the collection after update_objects (Spec).  Every click  *)
(* that toggles an item and every due update runs update_objects to its    *)
(* end within the event, so the states of Spec that have not panicked are  *)
(* states after the last update_objects.                                   *)
(***************************************************************************)
RECURSIVE SelectedArraysFrom(_)
\* The arrays of the selected items from item i on, one after the other.
SelectedArraysFrom(i) ==
    IF i > Len(items) THEN << >>
    ELSE (IF items[i].selected THEN CachedOf(i) ELSE << >>) \o SelectedArraysFrom(i + 1)

\* C26: the collection is the arrays of the selected items, in the order of
\* the list and each in its own order, and nothing else.
C26_ObjectsAreSelectedArraysInOrder ==
    panicked = NoPanic => objects = SelectedArraysFrom(1)

\* Two items are selected with different arrays, and the collection has
\* changed from what an earlier update left.
C26_Witness ==
    /\ panicked = NoPanic
    /\ \A i \in 1..Len(items) : items[i].selected
    /\ CachedOf(1) /= CachedOf(2)
    /\ Len(CachedOf(1)) = 2
    /\ objects = CachedOf(1) \o CachedOf(2)

(***************************************************************************)
(* Properties of the list's mouse handling (Spec).                         *)
(***************************************************************************)
\* The left clicks inside the list, and the row of the list under one.
ListClicks ==
    { event \in MouseEvents :
        /\ event.kind = "DownLeft"
        /\ rect_contains(satellites_inner_area, event.column, event.row) }
RowUnder(event) == (event.row - satellites_inner_area.y) + list_state.offset

\* C27: in every state the application reaches, a left click inside the
\* list on a row that shows an item toggles the selected flag of that item
\* (before the collection is rebuilt).
C27_ClickTogglesRowUnderPointer ==
    Alive =>
        \A event \in ListClicks :
            RowUnder(event) < Len(items) =>
                LET a == world_map_handle_mouse_events(event, AppState, now)
                IN  /\ list_click_updates(event, a)
                    /\ toggle_clicked_item(a).items[RowUnder(event) + 1].selected
                           = ~items[RowUnder(event) + 1].selected

(***************************************************************************)
(* Properties of the click on the list (SpecLoop).  The step from          *)
(* pc = "next" to pc = "clear" in the mouse handler is the click up to the *)
(* call of update_objects; the steps from there to pc = "tail" are the     *)
(* rebuild.                                                                *)
(***************************************************************************)
ClickToggles == pc = "next" /\ pc' = "clear" /\ cur'.handler = "mouse"
ClickRebuilds == cur.handler = "mouse" /\ pc \in { "clear", "item" } /\ panicked' = NoPanic
ClickedItem == Unwrap(list_state.selected) + 1

\* C28: the click that toggles an item sets selected_object and
\* hovered_object to None while the collection is still the old one, and
\* toggles the item clicked and no other; through the rebuild that follows,
\* both stay None and no other item changes its flag.
C28_ToggleResetsMapSelection ==
    [][ /\ ClickToggles =>
               /\ selected_object' = None
               /\ hovered_object' = None
               /\ objects' = objects
               /\ items' = [ items EXCEPT ![ClickedItem].selected = ~@ ]
        /\ ClickRebuilds =>
               /\ selected_object' = None
               /\ hovered_object' = None
               /\ \A j \in 1..Len(items) :
                      j /= ClickedItem => items'[j].selected = items[j].selected
      ]_vars

\* An item was clicked while an object was selected on the map: the
\* selection is gone and the collection still holds the object.
C28_Witness ==
    /\ pc = "clear" /\ cur.handler = "mouse"
    /\ selected_object = None
    /\ objects /= << >>
    /\ \E j \in 1..Len(items) : j /= ClickedItem /\ items[j].selected

(***************************************************************************)
(* Properties of the button presses on the map (Spec).                     *)
(***************************************************************************)
Presses == { event \in MouseEvents : event.kind \in { "DownLeft", "DownRight", "DownMiddle" } }

\* What the map's handler answers to the event in the state at hand.
AfterMapHandler(event) == world_map_handle_mouse_events(event, AppState, now)

QuitKeys ==
    { event \in Keys :
        event.code = "Esc" \/ (event.code = "c" /\ event.modifiers = { "CONTROL" }) }

\* No event is taken from the channel and the application's state stays.
HandlesNothing == app_vars' = app_vars /\ Len(queue') >= Len(queue)

\* C30: running is true at the start; handle_key_events answers an Esc, or
\* a c with exactly Control, with running false; running never goes from
\* false to true; while it is false no event is handled; and once it is
\* false the main loop ends.
C30_QuitEndsTheLoop ==
    /\ running = TRUE
    /\ [][ /\ \A event \in QuitKeys : ~handle_key_events(event, AppState).running
           /\ ~running => (~running' /\ HandlesNothing) ]_vars
    /\ (~running ~> pc = "exited")

\* The loop has ended after a key that quits.
C30_Witness ==
    /\ pc = "exited"
    /\ ~running
    /\ panicked = NoPanic

(***************************************************************************)
(* Properties of julian_days_from_utc (SpecJulian).                        *)
(***************************************************************************)
J2000 == DateTime(2000, 1, 1, 12, 0, 0)
UnixEpoch == DateTime(1970, 1, 1, 0, 0, 0)
ModifiedJulianEpoch == DateTime(1858, 11, 17, 0, 0, 0)

SecondsOfDay(datetime) ==
    datetime.hour * 3600 + datetime.minute * 60 + datetime.second

Midnight(datetime) == [ datetime EXCEPT !.hour = 0, !.minute = 0, !.second = 0 ]

\* C23: julian_days_from_utc gives the standard Julian date of a date and
\* time of the Gregorian calendar: 2000-01-01 12:00:00 is 2451545.0 (and
\* 1970-01-01 00:00:00 is 2440587.5, 1858-11-17 00:00:00 is 2400000.5), the
\* time of day adds its fraction of a day to the Julian date of the day's
\* midnight, which falls on a half, and the same time of day on the next
\* day of the calendar is exactly 1 more, across the ends of months and
\* years and across 29 February.
C23_JulianDateIsStandard ==
    /\ [](julian.phase = "done" =>
            /\ julian.datetime = J2000 => julian.days = Days(2451545, 0)
            /\ julian.datetime = UnixEpoch
                  => julian.days = Days(2440587, SecondsPerDay \div 2)
            /\ julian.datetime = ModifiedJulianEpoch
                  => julian.days = Days(2400000, SecondsPerDay \div 2)
            /\ julian_days_from_utc(Midnight(julian.datetime)).secs
                  = SecondsPerDay \div 2
            /\ julian.days
                  = LET midnight == julian_days_from_utc(Midnight(julian.datetime))
                    IN  Days(midnight.whole,
                             midnight.secs + SecondsOfDay(julian.datetime)))
    /\ [][ julian'.n = julian.n + 1 =>
              julian'.days = Days(julian.days.whole + 1, julian.days.secs) ]_vars

\* The conversion has crossed 29 February 2000 at a second before midnight.
C23_Witness ==
    /\ julian.phase = "done"
    /\ julian.n = 3
    /\ julian.datetime = DateTime(2000, 3, 1, 23, 59, 59)

(***************************************************************************)
(* Properties of gmst_from_julian_days (SpecSidereal).                     *)
(***************************************************************************)
WithinTurn(gmst) ==
    /\ gmst.class = "radians"
    /\ 0 <= gmst.val
    /\ gmst.val < TwoPi

\* C24: gmst_from_julian_days returns a sidereal time of at least 0 and
\* less than 2 pi radians for every Julian days given to it, the very
\* large and the negative ones included.
C24_GmstWithinTurn ==
    sidereal.phase = "done" => WithinTurn(sidereal.gmst)

\* The same, of the Julian days whose cube in centuries is a finite f64.
C24_GmstWithinTurnUnlessOverflow ==
    (/\ sidereal.phase = "done"
     /\ sidereal.julian_days.class = "huge"
          => 3 * (sidereal.julian_days.exp - JULIAN_CENTURY_EXP) <= F64_MAX_EXP)
        => WithinTurn(sidereal.gmst)

====
